---- MODULE Spec2Model ----
\* A model of the repository-analysis pipeline of src/repo_analyzer.py:
\* fetch_repo_data -> analyze_commit_patterns -> analyze_with_groq ->
\* calculate_final_score -> generate_report, sequenced by analyze_repository,
\* and of the presentation shell of src/app.py that calls it.
\*
\* Python values are modelled as follows.
\*   - every value is a record tagged by t: "null", "number", "string",
\*     "array" (a list) or "object" (a dict);
\*   - a str holds a sequence s of text fragments; every string whose
\*     characters the code inspects is spelled character by character;
\*   - a dict holds a function m whose domain is its set of keys;
\*   - a number is held in hundredths (fixed point), so 74.96 is 7496 and the
\*     integer 15 is 1500;
\*   - a call either returns a value, [returned |-> v], or raises,
\*     [raised |-> e].
EXTENDS Integers, Sequences, FiniteSets

VARIABLES
    pc,               \* position of analyze_repository; of the script of
                      \* app.py in the specification of the shell
    repo_url,         \* its argument; the text of the URL field of the shell
    calls,            \* outbound requests issued so far, in order
    answers,          \* what the remote services answered to them
    repo_data,        \* result of fetch_repo_data
    commit_analysis,  \* result of analyze_commit_patterns
    groq_analysis,    \* result of analyze_with_groq
    final_score,      \* the local final_score of calculate_final_score
    final_analysis,   \* result of calculate_final_score
    report,           \* result of generate_report
    result,           \* what analyze_repository returned, or the exception
    session,          \* st.session_state: result and analyzing
    groq_key_input,   \* the text of the key field of the sidebar
    GROQ_API_KEY,     \* config.GROQ_API_KEY
    screen            \* what the latest run of the script of app.py drew

\* the state of the shell
shell == <<session, groq_key_input, GROQ_API_KEY, screen>>

vars == <<pc, repo_url, calls, answers, repo_data, commit_analysis,
          groq_analysis, final_score, final_analysis, report, result,
          session, groq_key_input, GROQ_API_KEY, screen>>

-----------------------------------------------------------------------------
\* Bounds of the model.

\* longest commit list drawn in the specification of analyze_commit_patterns
MaxCommits == 10
\* how many points below 0 and above 100 the model scores go that are drawn
\* in the specification of calculate_final_score
ScoreMargin == 10

-----------------------------------------------------------------------------
\* Python values.

\* one point, in the fixed-point unit of the model
Scale == 10 * 10

Unset == [t |-> "unset"]
JNull == [t |-> "null"]
JNum(n) == [t |-> "number", n |-> n]
JInt(k) == JNum(k * Scale)
JStr(s) == [t |-> "string", s |-> s]
JArr(items) == [t |-> "array", items |-> items]
JObj(m) == [t |-> "object", m |-> m]

EmptyDict == JObj([k \in {} |-> JNull])
\* d.get(k, default), for a dict d
Get(d, k, default) == IF k \in DOMAIN d.m THEN d.m[k] ELSE default
\* an error condition: {"error": text}
ErrorDict(text) == JObj([error |-> JStr(text)])

Returned(v) == [returned |-> v]
Raised(e) == [raised |-> e]
IsRaised(r) == "raised" \in DOMAIN r

Min(a, b) == IF a < b THEN a ELSE b
Max(a, b) == IF a > b THEN a ELSE b
\* s[:n]
Take(s, n) == SubSeq(s, 1, Min(n, Len(s)))

UpperChars ==
    <<"A", "B", "C", "D", "E", "F", "G", "H", "I", "J", "K", "L", "M",
      "N", "O", "P", "Q", "R", "S", "T", "U", "V", "W", "X", "Y", "Z">>
LowerChars ==
    <<"a", "b", "c", "d", "e", "f", "g", "h", "i", "j", "k", "l", "m",
      "n", "o", "p", "q", "r", "s", "t", "u", "v", "w", "x", "y", "z">>
\* c.isupper() for a one-character string
IsUpper(c) == \E i \in 1..Len(UpperChars) : UpperChars[i] = c
LowerChar(c) ==
    IF IsUpper(c)
    THEN LowerChars[CHOOSE i \in 1..Len(UpperChars) : UpperChars[i] = c]
    ELSE c
\* s.lower()
Lower(s) == [i \in 1..Len(s) |-> LowerChar(s[i])]
\* w in s, for two strings
Contains(s, w) ==
    \E i \in 0..(Len(s) - Len(w)) : \A j \in 1..Len(w) : s[i + j] = w[j]

\* Commit messages and strings used as inputs, spelled character by character.
\* 'Fix bug'  (len 7)
MsgFix ==
    <<"F", "i", "x", " ", "b", "u", "g">>

\* 'add parser'  (len 10)
MsgAdd ==
    <<"a", "d", "d", " ", "p", "a", "r", "s", "e", "r">>

\* 'Handle prefix'  (len 13)
MsgPrefix ==
    <<"H", "a", "n", "d", "l", "e", " ", "p", "r", "e", "f", "i", "x">>

\* 'Refactor the tokenizer so that it streams input lazily.'  (len 55)
MsgPerfect ==
    <<"R", "e", "f", "a", "c", "t", "o", "r", " ", "t", "h", "e", " ", "t",
      "o", "k", "e", "n", "i", "z", "e", "r", " ", "s", "o", " ", "t", "h",
      "a", "t", " ", "i", "t", " ", "s", "t", "r", "e", "a", "m", "s", " ",
      "i", "n", "p", "u", "t", " ", "l", "a", "z", "i", "l", "y", ".">>

\* 'Update the README with installation steps and examples.'  (len 55)
MsgPerfectGeneric ==
    <<"U", "p", "d", "a", "t", "e", " ", "t", "h", "e", " ", "R", "E", "A",
      "D", "M", "E", " ", "w", "i", "t", "h", " ", "i", "n", "s", "t", "a",
      "l", "l", "a", "t", "i", "o", "n", " ", "s", "t", "e", "p", "s", " ",
      "a", "n", "d", " ", "e", "x", "a", "m", "p", "l", "e", "s", ".">>

\* 'Refactor the tokenizer to stream its input lazily.'  (len 50)
MsgFifty ==
    <<"R", "e", "f", "a", "c", "t", "o", "r", " ", "t", "h", "e", " ", "t",
      "o", "k", "e", "n", "i", "z", "e", "r", " ", "t", "o", " ", "s", "t",
      "r", "e", "a", "m", " ", "i", "t", "s", " ", "i", "n", "p", "u", "t",
      " ", "l", "a", "z", "i", "l", "y", ".">>

\* 'refactor the tokenizer so that it streams input lazily.'  (len 55)
MsgLongLower ==
    <<"r", "e", "f", "a", "c", "t", "o", "r", " ", "t", "h", "e", " ", "t",
      "o", "k", "e", "n", "i", "z", "e", "r", " ", "s", "o", " ", "t", "h",
      "a", "t", " ", "i", "t", " ", "s", "t", "r", "e", "a", "m", "s", " ",
      "i", "n", "p", "u", "t", " ", "l", "a", "z", "i", "l", "y", ".">>

\* 'Refactor the tokenizer so that it streams input lazily'  (len 54)
MsgNoPeriod ==
    <<"R", "e", "f", "a", "c", "t", "o", "r", " ", "t", "h", "e", " ", "t",
      "o", "k", "e", "n", "i", "z", "e", "r", " ", "s", "o", " ", "t", "h",
      "a", "t", " ", "i", "t", " ", "s", "t", "r", "e", "a", "m", "s", " ",
      "i", "n", "p", "u", "t", " ", "l", "a", "z", "i", "l", "y">>

\* 'an error occurred'  (len 17)
StrErrorText ==
    <<"a", "n", " ", "e", "r", "r", "o", "r", " ", "o", "c", "c", "u", "r",
      "r", "e", "d">>

\* 'looks fine'  (len 10)
StrPlain ==
    <<"l", "o", "o", "k", "s", " ", "f", "i", "n", "e">>
MsgEmpty == <<>>

\* A commit entry of the commit-list response, {"commit": {"message": m}}.
CommitEntry(m) == JObj([commit |-> JObj([message |-> m])])
\* An entry whose message is JSON null.
NullCommit == CommitEntry(JNull)
\* An entry without a "commit" member.
BareCommit == JObj([sha |-> JStr(<<"0">>)])

-----------------------------------------------------------------------------
\* analyze_commit_patterns

CommitLimit == 20
MessageLimit == 10
PerfectLen == 50
FewCommits == 5
FlagPenalty == 15
NoDataPenalty == 20

FlagNoData == JStr(<<"No commit data available">>)
FlagGrammar == JStr(<<"Most commits have perfect grammar (AI-generated?)">>)
FlagFew == JStr(<<"Very few commits (< 5)">>)
FlagGeneric == JStr(<<"Over 60% generic commit messages">>)

generic_words ==
    << <<"u", "p", "d", "a", "t", "e">>,
       <<"f", "i", "x">>,
       <<"i", "n", "i", "t", "i", "a", "l", " ", "c", "o", "m", "m", "i", "t">>,
       <<"f", "i", "r", "s", "t", " ", "c", "o", "m", "m", "i", "t">>,
       <<"c", "h", "a", "n", "g", "e", "s">> >>

\* commit.get('commit', {}).get('message', '')
CommitMessage(commit) ==
    Get(Get(commit, "commit", EmptyDict), "message", JStr(MsgEmpty))

\* len(msg) > 50 and msg[0].isupper() and '.' in msg
IsPerfect(msg) ==
    /\ Len(msg.s) > PerfectLen
    /\ IsUpper(msg.s[1])
    /\ Contains(msg.s, <<".">>)

\* any(word in msg.lower() for word in generic_words)
IsGeneric(msg) ==
    \E w \in 1..Len(generic_words) : Contains(Lower(msg.s), generic_words[w])

\* TooFew with the bound off by one
TooFewBelowFour(n) == n < FewCommits - 1

\* len(commits) < 5
TooFew(n) == n < FewCommits

\* perfect_count / len(commit_messages) > 0.8.  The quotient of two counts of
\* at most CommitLimit is a correctly rounded double, and so is the literal
\* 0.8: the comparison of the doubles agrees with the one of the fractions.
GrammarExceeds(perfect_count, n) == perfect_count * 10 > 8 * n
\* GenericExceeds with a threshold that is reached rather than exceeded
GenericReaches(generic_count, n) == generic_count * 10 >= 6 * n

\* generic_count / len(commit_messages) > 0.6
GenericExceeds(generic_count, n) == generic_count * 10 > 6 * n

\* commits is the Python list, as a sequence
analyze_commit_patterns(commits) ==
    IF Len(commits) = 0
    THEN Returned(JObj([total_commits |-> JInt(0),
                        red_flags |-> JArr(<<FlagNoData>>),
                        commit_messages |-> JArr(<<>>),
                        pattern_score |-> JInt(NoDataPenalty)]))
    ELSE
      LET commit_messages ==
              [i \in 1..Len(commits) |-> CommitMessage(commits[i])]
          n == Len(commit_messages)
      IN  \* len(msg) of a message that is None is a TypeError
          IF \E i \in 1..n : commit_messages[i].t # "string"
          THEN Raised("TypeError")
          ELSE
            LET perfect_count ==
                    Cardinality({i \in 1..n : IsPerfect(commit_messages[i])})
                generic_count ==
                    Cardinality({i \in 1..n : IsGeneric(commit_messages[i])})
                red_flags ==
                    (IF GrammarExceeds(perfect_count, n)
                     THEN <<FlagGrammar>> ELSE <<>>)
                    \o (IF TooFew(Len(commits))
                        THEN <<FlagFew>> ELSE <<>>)
                    \o (IF GenericExceeds(generic_count, n)
                        THEN <<FlagGeneric>> ELSE <<>>)
            IN  Returned(JObj(
                    [total_commits |-> JInt(Len(commits)),
                     red_flags |-> JArr(red_flags),
                     commit_messages |->
                         JArr(Take(commit_messages, MessageLimit)),
                     pattern_score |-> JInt(Len(red_flags) * FlagPenalty)]))

-----------------------------------------------------------------------------
\* fetch_repo_data

\* 'https://github.com/octocat/Hello-World'
UrlHelloWorld ==
    <<"h", "t", "t", "p", "s", ":", "/", "/", "g", "i", "t", "h", "u", "b",
      ".", "c", "o", "m", "/", "o", "c", "t", "o", "c", "a", "t", "/", "H",
      "e", "l", "l", "o", "-", "W", "o", "r", "l", "d">>

\* 'https://github.com/octocat/Hello-World//'
UrlTrailing ==
    <<"h", "t", "t", "p", "s", ":", "/", "/", "g", "i", "t", "h", "u", "b",
      ".", "c", "o", "m", "/", "o", "c", "t", "o", "c", "a", "t", "/", "H",
      "e", "l", "l", "o", "-", "W", "o", "r", "l", "d", "/", "/">>

\* 'octocat/Hello-World'
UrlShort ==
    <<"o", "c", "t", "o", "c", "a", "t", "/", "H", "e", "l", "l", "o", "-",
      "W", "o", "r", "l", "d">>

\* 'https://github.com/octocat'
UrlOwnerOnly ==
    <<"h", "t", "t", "p", "s", ":", "/", "/", "g", "i", "t", "h", "u", "b",
      ".", "c", "o", "m", "/", "o", "c", "t", "o", "c", "a", "t">>

\* 'octocat'
UrlBare ==
    <<"o", "c", "t", "o", "c", "a", "t">>

\* '/'
UrlSlash ==
    <<"/">>

\* 'https:'
SegHttps ==
    <<"h", "t", "t", "p", "s", ":">>

\* 'github.com'
SegHost ==
    <<"g", "i", "t", "h", "u", "b", ".", "c", "o", "m">>

\* 'octocat'
SegOctocat ==
    <<"o", "c", "t", "o", "c", "a", "t">>

\* 'Hello-World'
SegHelloWorld ==
    <<"H", "e", "l", "l", "o", "-", "W", "o", "r", "l", "d">>

\* s.rstrip('/')
RECURSIVE RStrip(_)
RStrip(s) ==
    IF Len(s) > 0 /\ s[Len(s)] = "/"
    THEN RStrip(SubSeq(s, 1, Len(s) - 1))
    ELSE s

\* s.split('/'): the list of the pieces between the separators
RECURSIVE Split(_)
Split(s) ==
    IF \E i \in 1..Len(s) : s[i] = "/"
    THEN LET i == CHOOSE k \in 1..Len(s) :
                      s[k] = "/" /\ \A j \in 1..(k - 1) : s[j] # "/"
         IN  <<SubSeq(s, 1, i - 1)>> \o Split(SubSeq(s, i + 1, Len(s)))
    ELSE <<s>>

\* chr(32) .. chr(126); the quote, the backslash and the backtick are named
AsciiPrintable ==
    <<" ", "!", "QUOTE", "#", "$", "%", "&", "'", "(", ")", "*", "+", ",", "-",
      ".", "/", "0", "1", "2", "3", "4", "5", "6", "7", "8", "9", ":", ";",
      "<", "=", ">", "?", "@", "A", "B", "C", "D", "E", "F", "G", "H", "I",
      "J", "K", "L", "M", "N", "O", "P", "Q", "R", "S", "T", "U", "V", "W",
      "X", "Y", "Z", "[", "BACKSLASH", "]", "^", "_", "BACKTICK", "a", "b", "c", "d", "e",
      "f", "g", "h", "i", "j", "k", "l", "m", "n", "o", "p", "q", "r", "s",
      "t", "u", "v", "w", "x", "y", "z", "{", "|", "}", "~">>

B64Alphabet ==
    <<"A", "B", "C", "D", "E", "F", "G", "H", "I", "J", "K", "L", "M", "N",
      "O", "P", "Q", "R", "S", "T", "U", "V", "W", "X", "Y", "Z", "a", "b",
      "c", "d", "e", "f", "g", "h", "i", "j", "k", "l", "m", "n", "o", "p",
      "q", "r", "s", "t", "u", "v", "w", "x", "y", "z", "0", "1", "2", "3",
      "4", "5", "6", "7", "8", "9", "+", "/">>

\* 'IyBIZWxsbw=='
B64Readme ==
    <<"I", "y", "B", "I", "Z", "W", "x", "s", "b", "w", "=", "=">>

\* 'IyBIZWxsb'
B64Truncated ==
    <<"I", "y", "B", "I", "Z", "W", "x", "s", "b">>

\* '# Hello'
TextReadme ==
    <<"#", " ", "H", "e", "l", "l", "o">>

IsB64Char(c) == \E i \in 1..Len(B64Alphabet) : B64Alphabet[i] = c
B64Value(c) == (CHOOSE i \in 1..Len(B64Alphabet) : B64Alphabet[i] = c) - 1

\* The 6-bit values of the alphabet characters of s; other characters are
\* discarded, as the non-strict decoder does.
B64Sextets(s) ==
    LET data == SelectSeq(s, IsB64Char)
    IN  [i \in 1..Len(data) |-> B64Value(data[i])]

\* The decoder rejects data whose last quad is incomplete and not padded.
B64Valid(s) ==
    LET d == Len(SelectSeq(s, IsB64Char))
        p == Len(SelectSeq(s, LAMBDA c : c = "="))
    IN  \/ d % 4 = 0
        \/ d % 4 = 2 /\ p >= 2
        \/ d % 4 = 3 /\ p >= 1

\* base64.b64decode(s), as a sequence of bytes
B64Decode(s) ==
    LET v == B64Sextets(s)
        bits(i) == v[i] * 64 ^ (3 - ((i - 1) % 4))
        \* the 24 bits of quad q, missing sextets being zero
        quad(q) ==
            LET ix == {i \in 1..Len(v) : (i - 1) \div 4 = q}
                a == IF 4 * q + 1 \in ix THEN bits(4 * q + 1) ELSE 0
                b == IF 4 * q + 2 \in ix THEN bits(4 * q + 2) ELSE 0
                c == IF 4 * q + 3 \in ix THEN bits(4 * q + 3) ELSE 0
                d == IF 4 * q + 4 \in ix THEN bits(4 * q + 4) ELSE 0
            IN  a + b + c + d
        nbytes == (Len(v) * 6) \div 8
    IN  [k \in 1..nbytes |->
            (quad((k - 1) \div 3) \div (256 ^ (2 - ((k - 1) % 3)))) % 256]

\* bytes.decode('utf-8', errors='ignore'), for bytes of which the printable
\* ASCII ones are kept and every other one (a control character or a byte
\* that is no valid UTF-8 sequence) is dropped
DecodeUtf8Ignore(bytes) ==
    LET kept == SelectSeq(bytes, LAMBDA b : b >= 32 /\ b <= 126)
    IN  [i \in 1..Len(kept) |-> AsciiPrintable[kept[i] - 31]]

ReadmeLimit == 5000
RequestTimeout == 10

\* What the hosting API answers to one request: a response with a status and
\* a body, or no response at all.
Response(status, body) == [status |-> status, body |-> body]
Failure(e) == [failure |-> e]
IsFailure(r) == "failure" \in DOMAIN r
\* response.ok
Ok(r) == r.status < 400
\* a body that response.json() cannot decode
Undecodable == [t |-> "undecodable"]

\* requests.get(url, timeout=10), as the log entry of the request
Request(path, owner, repo) ==
    [api |-> "github", path |-> path, owner |-> owner, repo |-> repo,
     timeout |-> RequestTimeout]

MsgInvalidUrl == <<"Invalid GitHub URL">>
MsgNotFound == <<"Repository not found">>
MsgRateLimit == <<"Rate limit exceeded. Wait 1 hour.">>
MsgApiError == "GitHub API error: "
MsgFetchFailed == "Failed to fetch repo: "

\* HttpErrorResult without the branch of the status 403
HttpErrorResultNoRateLimit(status) ==
    IF status = 404 THEN ErrorDict(MsgNotFound)
    ELSE ErrorDict(<<MsgApiError, "HTTPError">>)

\* except requests.exceptions.HTTPError as e
HttpErrorResult(status) ==
    IF status = 404 THEN ErrorDict(MsgNotFound)
    ELSE IF status = 403 THEN ErrorDict(MsgRateLimit)
    ELSE ErrorDict(<<MsgApiError, "HTTPError">>)

\* The result of fetch_repo_data and the requests it issued, given what the
\* hosting API answers to the four requests.
fetch_repo_data(url, r1, r2, r3, r4) ==
    LET parts == Split(RStrip(url))
        owner == parts[Len(parts) - 1]
        repo == parts[Len(parts)]
        q1 == <<Request("repo", owner, repo)>>
        q2 == q1 \o <<Request("commits", owner, repo)>>
        q3 == q2 \o <<Request("languages", owner, repo)>>
        q4 == q3 \o <<Request("readme", owner, repo)>>
        \* except Exception as e
        failed(e, q) == [value |-> ErrorDict(<<MsgFetchFailed, e>>), calls |-> q]
        commits == IF Ok(r2) THEN r2.body ELSE JArr(<<>>)
        languages == IF Ok(r3) THEN r3.body ELSE EmptyDict
        content == Get(r4.body, "content", JStr(<<>>))
        readme_content ==
            IF Ok(r4) THEN DecodeUtf8Ignore(B64Decode(content.s)) ELSE <<>>
    IN
    IF Len(parts) < 2 THEN [value |-> ErrorDict(MsgInvalidUrl), calls |-> <<>>]
    ELSE IF IsFailure(r1) THEN failed(r1.failure, q1)
    ELSE IF r1.status >= 400 THEN
        \* response.raise_for_status()
        [value |-> HttpErrorResult(r1.status), calls |-> q1]
    ELSE IF r1.body = Undecodable THEN failed("JSONDecodeError", q1)
    ELSE IF IsFailure(r2) THEN failed(r2.failure, q2)
    ELSE IF Ok(r2) /\ r2.body = Undecodable THEN failed("JSONDecodeError", q2)
    ELSE IF IsFailure(r3) THEN failed(r3.failure, q3)
    ELSE IF Ok(r3) /\ r3.body = Undecodable THEN failed("JSONDecodeError", q3)
    ELSE IF IsFailure(r4) THEN failed(r4.failure, q4)
    ELSE IF Ok(r4) /\ r4.body = Undecodable THEN failed("JSONDecodeError", q4)
    \* readme_data.get of a body that is no dict
    ELSE IF Ok(r4) /\ r4.body.t # "object" THEN failed("AttributeError", q4)
    \* base64.b64decode of a content that is no str
    ELSE IF Ok(r4) /\ content.t # "string" THEN failed("TypeError", q4)
    ELSE IF Ok(r4) /\ ~B64Valid(content.s) THEN failed("binascii.Error", q4)
    \* repo_data.get of a body that is no dict
    ELSE IF r1.body.t # "object" THEN failed("AttributeError", q4)
    \* commits[:20] of a body that is no list
    ELSE IF commits.t # "array" THEN failed("TypeError", q4)
    ELSE
        [value |-> JObj(
            [name |-> Get(r1.body, "name", JNull),
             description |-> Get(r1.body, "description", JStr(<<>>)),
             stars |-> Get(r1.body, "stargazers_count", JInt(0)),
             forks |-> Get(r1.body, "forks_count", JInt(0)),
             created_at |-> Get(r1.body, "created_at", JNull),
             updated_at |-> Get(r1.body, "updated_at", JNull),
             language |-> Get(r1.body, "language", JNull),
             languages |-> languages,
             commits |-> JArr(Take(commits.items, CommitLimit)),
             readme |-> JStr(Take(readme_content, ReadmeLimit)),
             owner |-> JStr(owner),
             repo |-> JStr(repo)]),
         calls |-> q4]

-----------------------------------------------------------------------------
\* analyze_with_groq

PromptCommits == 10
PromptReadme == 2000
GroqModel == "llama-3.1-8b-instant"
MaxTokens == 2000

\* The text of a chat completion, as a sequence of lexical tokens; a fence
\* is the three-backtick marker of a markdown code block.
TFenceJson == [tk |-> "fence_json"]
TFence == [tk |-> "fence"]
TProse == [tk |-> "prose"]
TLBrace == [tk |-> "{"]
TRBrace == [tk |-> "}"]
TComma == [tk |-> ","]
\* "key": value
TMember(k, v) == [tk |-> "member", key |-> k, val |-> v]
\* a JSON literal that is no object: a number, a string, null, an array
TValue(v) == [tk |-> "value", val |-> v]

\* The two re.sub calls: the opening fence with its json tag, then every
\* remaining fence, are removed with the white space that follows them.
StripFences(text) ==
    LET noJson == SelectSeq(text, LAMBDA t : t.tk # "fence_json")
    IN  SelectSeq(noJson, LAMBDA t : t.tk # "fence")

\* The dict of a well-formed member list: a later duplicate key wins.
MembersDict(inner) ==
    LET ix == {i \in 1..Len(inner) : i % 2 = 1}
        keys == {inner[i].key : i \in ix}
        last(k) == CHOOSE i \in ix :
                       /\ inner[i].key = k
                       /\ \A j \in ix : inner[j].key = k => j <= i
    IN  [k \in keys |-> inner[last(k)].val]

\* json.loads(text)
JsonLoads(text) ==
    IF Len(text) = 1 /\ text[1].tk = "value" THEN Returned(text[1].val)
    ELSE IF /\ Len(text) >= 2
            /\ text[1].tk = "{"
            /\ text[Len(text)].tk = "}"
            /\ LET inner == SubSeq(text, 2, Len(text) - 1)
               IN  /\ Len(inner) = 0 \/ Len(inner) % 2 = 1
                   /\ \A i \in 1..Len(inner) :
                          inner[i].tk = IF i % 2 = 1 THEN "member" ELSE ","
    THEN Returned(JObj(MembersDict(SubSeq(text, 2, Len(text) - 1))))
    ELSE Raised("JSONDecodeError")

\* re.search(r'\{.*\}', text, re.DOTALL): from the first opening brace to the
\* last closing brace after it; <<>> when there is no match
SearchBraces(text) ==
    LET opens == {i \in 1..Len(text) : text[i].tk = "{"}
        first == CHOOSE i \in opens : \A j \in opens : i <= j
        closes == {i \in 1..Len(text) : text[i].tk = "}" /\ i > first}
        last == CHOOSE i \in closes : \A j \in closes : j <= i
    IN  IF opens = {} \/ closes = {} THEN <<>>
        ELSE SubSeq(text, first, last)

\* if msg: commit_msgs.append(msg), over the first 10 commits
PromptMessages(commits) ==
    LET msgs == [i \in 1..Len(commits) |-> CommitMessage(commits[i])]
    IN  SelectSeq(Take(msgs, PromptCommits),
                  LAMBDA m : m.t = "string" /\ Len(m.s) > 0)

\* x or default
OrDefault(x, default) ==
    IF x.t = "null" \/ (x.t = "string" /\ Len(x.s) = 0) THEN default ELSE x

\* The chat-completion request, as its log entry.
ChatRequest(data) ==
    [api |-> "groq",
     model |-> GroqModel,
     max_tokens |-> MaxTokens,
     name |-> Get(data, "name", JNull),
     description |-> OrDefault(Get(data, "description", JNull),
                               JStr(<<"No description">>)),
     language |-> OrDefault(Get(data, "language", JNull),
                            JStr(<<"Unknown">>)),
     stars |-> Get(data, "stars", JNull),
     commits |-> PromptMessages(Get(data, "commits", JArr(<<>>)).items),
     readme |-> Take(Get(data, "readme", JStr(<<"No README">>)).s,
                     PromptReadme)]

MsgNoParse == <<"Could not parse response">>
MsgGroqFailed == "Groq analysis failed: "

\* The result of analyze_with_groq, given the outcome of the chat completion:
\* a failure, or a completion whose content is a text or None.
analyze_with_groq(outcome) ==
    IF IsFailure(outcome) THEN ErrorDict(<<MsgGroqFailed, outcome.failure>>)
    \* None.strip()
    ELSE IF outcome.content.t # "text"
    THEN ErrorDict(<<MsgGroqFailed, "AttributeError">>)
    ELSE
      LET response_text == StripFences(outcome.content.tokens)
          direct == JsonLoads(response_text)
          json_match == SearchBraces(response_text)
          second == JsonLoads(json_match)
      IN  IF ~IsRaised(direct) THEN direct.returned
          ELSE IF json_match # <<>>
          THEN IF ~IsRaised(second) THEN second.returned
               \* raised inside the except clause: the outer handler gets it
               ELSE ErrorDict(<<MsgGroqFailed, second.raised>>)
          ELSE ErrorDict(MsgNoParse)

StrError == <<"e", "r", "r", "o", "r">>

\* "error" in v
InError(v) ==
    IF v.t = "object" THEN Returned("error" \in DOMAIN v.m)
    ELSE IF v.t = "array"
    THEN Returned(\E i \in 1..Len(v.items) :
                      v.items[i].t = "string" /\ v.items[i].s = StrError)
    ELSE IF v.t = "string" THEN Returned(Contains(v.s, StrError))
    ELSE Raised("TypeError")

-----------------------------------------------------------------------------
\* calculate_final_score

DefaultScore == 50
ScoreFloor == 0
ScoreCeiling == 100
AuthenticMin == 75
SuspiciousMin == 50
PaddedMin == 25
FlagLimit == 10
DefaultComplexity == 5

\* Clamp without the lower end: min(100, x)
ClampNoFloor(x) == Min(ScoreCeiling * Scale, x)

\* max(0, min(100, x)), in hundredths
Clamp(x) == Max(ScoreFloor * Scale, Min(ScoreCeiling * Scale, x))

\* The values round(x, 1) can take.  x lies between two tenths; the nearer one
\* is taken.  Half-way, a value whose double is exact (x.25, x.75) goes to the
\* even tenth; the double of any other x.x5 lies a little above or below the
\* half, so either tenth can come out.
Round1(x) ==
    LET tenth == Scale \div 10
        down == (x \div tenth) * tenth
        up == down + tenth
        r == x - down
    IN  IF r = 0 THEN {x}
        ELSE IF 2 * r < tenth THEN {down}
        ELSE IF 2 * r > tenth THEN {up}
        ELSE IF x % (Scale \div 4) = 0
        THEN {IF (down \div tenth) % 2 = 0 THEN down ELSE up}
        ELSE {down, up}

\* final_score = max(0, min(100, base_score - commit_penalty)); only called
\* when both are numbers
FinalScore(groq, commit) ==
    Clamp(Get(groq, "authenticity_score", JInt(DefaultScore)).n
          - Get(commit, "pattern_score", JInt(0)).n)

\* Band with exclusive lower bounds
BandExclusive(score) ==
    IF score > AuthenticMin * Scale
    THEN [category |-> "AUTHENTIC", risk |-> "Low", color |-> "green"]
    ELSE IF score > SuspiciousMin * Scale
    THEN [category |-> "SUSPICIOUS", risk |-> "Medium", color |-> "yellow"]
    ELSE IF score > PaddedMin * Scale
    THEN [category |-> "LIKELY PADDED", risk |-> "High", color |-> "orange"]
    ELSE [category |-> "FAKE/COPIED", risk |-> "Critical", color |-> "red"]

\* The band of a final score: category, risk and color.
Band(score) ==
    IF score >= AuthenticMin * Scale
    THEN [category |-> "AUTHENTIC", risk |-> "Low", color |-> "green"]
    ELSE IF score >= SuspiciousMin * Scale
    THEN [category |-> "SUSPICIOUS", risk |-> "Medium", color |-> "yellow"]
    ELSE IF score >= PaddedMin * Scale
    THEN [category |-> "LIKELY PADDED", risk |-> "High", color |-> "orange"]
    ELSE [category |-> "FAKE/COPIED", risk |-> "Critical", color |-> "red"]

\* list.extend(v) accepts any iterable: a list gives its items, a str its
\* characters, a dict its keys
IsIterable(v) == v.t \in {"array", "string", "object"}
Items(v) ==
    IF v.t = "array" THEN v.items
    ELSE IF v.t = "string" THEN [i \in 1..Len(v.s) |-> JStr(<<v.s[i]>>)]
    ELSE LET RECURSIVE KeySeq(_)
             KeySeq(ks) == IF ks = {} THEN <<>>
                           ELSE LET k == CHOOSE x \in ks : TRUE
                                IN  <<JStr(<<k>>)>> \o KeySeq(ks \ {k})
         IN  KeySeq(DOMAIN v.m)

\* The result of calculate_final_score; rounded is the value round() gave.
calculate_final_score(groq, commit, rounded) ==
    LET base_score == Get(groq, "authenticity_score",
                          JInt(DefaultScore))
        commit_penalty == Get(commit, "pattern_score", JInt(0))
        score == FinalScore(groq, commit)
        band == Band(score)
        flags1 == Get(groq, "red_flags", JArr(<<>>))
        flags2 == Get(groq, "ai_indicators", JArr(<<>>))
        flags3 == Get(commit, "red_flags", JArr(<<>>))
    IN
    \* groq_analysis.get of a value that is no dict
    IF groq.t # "object" THEN Raised("AttributeError")
    \* base_score - commit_penalty of a value that is no number
    ELSE IF base_score.t # "number" \/ commit_penalty.t # "number"
    THEN Raised("TypeError")
    \* all_red_flags.extend of a value that is not iterable
    ELSE IF ~IsIterable(flags1) \/ ~IsIterable(flags2) \/ ~IsIterable(flags3)
    THEN Raised("TypeError")
    ELSE Returned(JObj(
        [authenticity_score |-> JNum(rounded),
         category |-> JStr(<<band.category>>),
         risk_level |-> JStr(<<band.risk>>),
         color |-> JStr(<<band.color>>),
         ai_generated_score |->
             Get(groq, "ai_generated_score", JInt(0)),
         technical_complexity |->
             Get(groq, "technical_complexity",
                 JInt(DefaultComplexity)),
         red_flags |->
             JArr(Take(Items(flags1) \o Items(flags2) \o Items(flags3),
                       FlagLimit)),
         hiring_recommendation |->
             Get(groq, "hiring_recommendation", JStr(<<>>)),
         groq_analysis |-> groq,
         commit_analysis |-> commit]))

-----------------------------------------------------------------------------
\* generate_report

\* The markdown report, as the values the template embeds, in order.
generate_report(data, final) ==
    LET fa == final.m
        flags == fa.red_flags.items
    IN  [t |-> "report",
         name |-> Get(data, "name", JNull),
         owner |-> Get(data, "owner", JNull),
         repo |-> Get(data, "repo", JNull),
         stars |-> Get(data, "stars", JNull),
         authenticity_score |-> fa.authenticity_score,
         category |-> fa.category,
         risk_level |-> fa.risk_level,
         ai_generated_score |-> fa.ai_generated_score,
         technical_complexity |-> fa.technical_complexity,
         resume_padding_score |->
             Get(fa.groq_analysis, "resume_padding_score", JInt(0)),
         flag_count |-> Len(flags),
         flag_lines |->
             IF Len(flags) > 0
             THEN [i \in 1..Len(flags) |-> [number |-> i, flag |-> flags[i]]]
             ELSE <<>>,
         no_flags_line |-> (Len(flags) = 0),
         hiring_recommendation |-> fa.hiring_recommendation,
         complexity_reasoning |->
             Get(fa.groq_analysis, "complexity_reasoning", JStr(<<"N/A">>)),
         authenticity_reasoning |->
             Get(fa.groq_analysis, "authenticity_reasoning",
                 JStr(<<"N/A">>))]

-----------------------------------------------------------------------------
\* The inputs of a run: the URL, and what the two remote services answer.

UrlInputs ==
    {UrlHelloWorld, UrlTrailing, UrlShort, UrlOwnerOnly, UrlBare, UrlSlash,
     <<>>}

ApiMessage == JObj([message |-> JStr(<<"Not Found">>)])
RepoMeta ==
    JObj([name |-> JStr(SegHelloWorld),
          description |-> JNull,
          stargazers_count |-> JInt(3),
          language |-> JStr(<<"Python">>)])

C(text) == CommitEntry(JStr(text))
Rep(x, n) == [i \in 1..n |-> x]

CommitLists ==
    {<<>>,
     <<C(MsgPerfectGeneric)>>,
     <<C(MsgFix), C(MsgAdd), C(MsgAdd)>>,
     Rep(C(MsgAdd), FewCommits),
     Rep(C(MsgAdd), CommitLimit + 1),
     <<C(MsgAdd), NullCommit>>,
     <<BareCommit, C(MsgEmpty), C(MsgPrefix), C(MsgLongLower),
       C(MsgNoPeriod), C(MsgFifty)>>}

PrimaryOutcomes ==
    {Response(200, RepoMeta), Response(200, Undecodable),
     Response(200, JArr(<<>>)), Response(404, ApiMessage),
     Response(403, ApiMessage), Response(500, ApiMessage),
     Failure("Timeout"), Failure("ConnectionError")}
CommitOutcomes ==
    {Response(200, JArr(l)) : l \in CommitLists}
    \cup {Response(200, ApiMessage), Response(200, Undecodable),
          Response(409, ApiMessage), Failure("Timeout")}
LanguageOutcomes ==
    {Response(200, JObj([Python |-> JInt(1200)])),
     Response(200, Undecodable), Response(404, ApiMessage),
     Failure("Timeout")}
ReadmeOutcomes ==
    {Response(200, JObj([content |-> JStr(B64Readme)])),
     Response(200, JObj([content |-> JStr(B64Truncated)])),
     Response(200, JObj([content |-> JNull])),
     Response(200, JArr(<<>>)), Response(200, Undecodable),
     Response(404, ApiMessage), Failure("Timeout")}

\* Scores the model reports in a run of the whole pipeline, in hundredths.
ReportedScores == {-500, 1000, 7496, 7500, 9500, 12000}

MScore(n) == TMember("authenticity_score", JNum(n))
MFlags == TMember("red_flags", JArr(<<JStr(<<"No tests">>)>>))
MIndicators == TMember("ai_indicators", JArr(<<JStr(<<"Boilerplate">>)>>))

\* The part of a completion between what precedes and what follows it.
ResponseCores ==
    {<<TLBrace, MScore(n), TRBrace>> : n \in ReportedScores}
    \cup
    {<<>>,
     <<TProse>>,
     <<TLBrace, TRBrace>>,
     <<TLBrace, MScore(9500), TComma, MFlags, TComma, MIndicators, TRBrace>>,
     <<TLBrace, MScore(9500), TComma, MScore(1000), TRBrace>>,
     <<TLBrace, TMember("authenticity_score", JStr(<<"high">>)), TRBrace>>,
     <<TLBrace, TMember("authenticity_score", JNull), TRBrace>>,
     <<TLBrace, TMember("red_flags", JNull), TRBrace>>,
     <<TLBrace, TMember("red_flags", JStr(<<"n", "o">>)), TRBrace>>,
     <<TLBrace, TMember("error", JStr(<<"cannot assess">>)), TRBrace>>,
     <<TLBrace, MScore(9500)>>,
     <<TRBrace, TLBrace>>,
     <<TLBrace, TProse, TRBrace>>,
     <<TLBrace, MScore(9500), TComma, TRBrace>>,
     <<TLBrace, MScore(9500), TRBrace, TProse, TLBrace, TRBrace>>,
     <<TValue(JArr(<<>>))>>,
     <<TValue(JArr(<<JStr(StrError)>>))>>,
     <<TValue(JInt(42))>>,
     <<TValue(JNull)>>,
     <<TValue(JStr(StrErrorText))>>,
     <<TValue(JStr(StrPlain))>>}
ResponsePrefixes == {<<>>, <<TFenceJson>>, <<TProse>>}
ResponseSuffixes == {<<>>, <<TFence>>, <<TProse>>}
ResponseTexts ==
    {p \o c \o s :
        p \in ResponsePrefixes, c \in ResponseCores, s \in ResponseSuffixes}

Completion(content) == [content |-> content]
ChatOutcomes ==
    {Failure("APIConnectionError"), Completion(JNull)}
    \cup {Completion([t |-> "text", tokens |-> x]) : x \in ResponseTexts}

-----------------------------------------------------------------------------
\* The session state of the shell and what it draws.

\* st.session_state once lines 37-41 of app.py have run in a new session
SessionInit == [result |-> JNull, analyzing |-> FALSE]

\* analyze_repository called by another caller than the shell: a new session,
\* no key, nothing drawn
NoShell ==
    /\ session = SessionInit
    /\ groq_key_input = JStr(<<>>)
    /\ GROQ_API_KEY = JNull
    /\ screen = [shown |-> <<>>, disabled |-> FALSE, reset |-> FALSE]

-----------------------------------------------------------------------------
\* analyze_repository, one step per stage.

\* return v
Return(v) == result' = Returned(v) /\ pc' = "done"
\* an exception leaves analyze_repository
Raise(e) == result' = Raised(e) /\ pc' = "done"

FetchRepoData ==
    /\ pc = "fetch"
    /\ \E r1 \in PrimaryOutcomes, r2 \in CommitOutcomes,
          r3 \in LanguageOutcomes, r4 \in ReadmeOutcomes :
          LET f == fetch_repo_data(repo_url, r1, r2, r3, r4)
          IN  /\ repo_data' = f.value
              /\ calls' = calls \o f.calls
              /\ answers' = answers \o Take(<<r1, r2, r3, r4>>, Len(f.calls))
              /\ IF "error" \in DOMAIN f.value.m
                 THEN Return(f.value)
                 ELSE pc' = "commits" /\ UNCHANGED result
    /\ UNCHANGED <<repo_url, commit_analysis, groq_analysis, final_score,
                   final_analysis, report, shell>>

AnalyzeCommitPatterns ==
    /\ pc = "commits"
    /\ LET r == analyze_commit_patterns(
                    Get(repo_data, "commits", JArr(<<>>)).items)
       IN  IF IsRaised(r)
           THEN Raise(r.raised) /\ UNCHANGED commit_analysis
           ELSE /\ commit_analysis' = r.returned
                /\ pc' = "groq"
                /\ UNCHANGED result
    /\ UNCHANGED <<repo_url, calls, answers, repo_data, groq_analysis,
                   final_score, final_analysis, report, shell>>

AnalyzeWithGroq ==
    /\ pc = "groq"
    /\ \E outcome \in ChatOutcomes :
          LET g == analyze_with_groq(outcome)
              e == InError(g)
          IN  /\ groq_analysis' = g
              /\ calls' = Append(calls, ChatRequest(repo_data))
              /\ answers' = Append(answers, outcome)
              /\ IF IsRaised(e) THEN Raise(e.raised)
                 ELSE IF e.returned THEN Return(g)
                 ELSE pc' = "score" /\ UNCHANGED result
    /\ UNCHANGED <<repo_url, repo_data, commit_analysis, final_score,
                   final_analysis, report, shell>>

CalculateFinalScore ==
    /\ pc = "score"
    /\ IF IsRaised(calculate_final_score(groq_analysis, commit_analysis, 0))
       THEN /\ Raise(calculate_final_score(groq_analysis, commit_analysis,
                                           0).raised)
            /\ UNCHANGED <<final_score, final_analysis>>
       ELSE \E rounded \in Round1(FinalScore(groq_analysis, commit_analysis)) :
               /\ final_score' =
                      JNum(FinalScore(groq_analysis, commit_analysis))
               /\ final_analysis' =
                      calculate_final_score(groq_analysis, commit_analysis,
                                            rounded).returned
               /\ pc' = "report"
               /\ UNCHANGED result
    /\ UNCHANGED <<repo_url, calls, answers, repo_data, commit_analysis,
                   groq_analysis, report, shell>>

GenerateReport ==
    /\ pc = "report"
    /\ report' = generate_report(repo_data, final_analysis)
    /\ Return(JObj([repo_data |-> repo_data,
                    final_analysis |-> final_analysis,
                    report |-> report']))
    /\ UNCHANGED <<repo_url, calls, answers, repo_data, commit_analysis,
                   groq_analysis, final_score, final_analysis, shell>>

Init ==
    /\ pc = "fetch"
    /\ repo_url \in UrlInputs
    /\ calls = <<>>
    /\ answers = <<>>
    /\ repo_data = Unset
    /\ commit_analysis = Unset
    /\ groq_analysis = Unset
    /\ final_score = Unset
    /\ final_analysis = Unset
    /\ report = Unset
    /\ result = Unset
    /\ NoShell

Next ==
    \/ FetchRepoData
    \/ AnalyzeCommitPatterns
    \/ AnalyzeWithGroq
    \/ CalculateFinalScore
    \/ GenerateReport

Spec == Init /\ [][Next]_vars

-----------------------------------------------------------------------------
\* analyze_commit_patterns alone: the runs that have fetched a commit list
\* made of up to MaxCommits entries of a few kinds, kind after kind.

HeurKinds ==
    <<C(MsgFix), C(MsgAdd), C(MsgPerfect), C(MsgPerfectGeneric), C(MsgFifty),
      NullCommit>>

\* the lists of at most n entries of the first k kinds, in the order of kinds
RECURSIVE Runs(_, _)
Runs(k, n) ==
    IF k = 0 THEN {<<>>}
    ELSE UNION {{l \o Rep(HeurKinds[k], c) : l \in Runs(k - 1, n - c)} :
                    c \in 0..n}

HeurCommitLists == Runs(Len(HeurKinds), MaxCommits)

\* the four answers of a fetch that succeeds with the commit list l
GoodAnswers(l) ==
    <<Response(200, RepoMeta),
      Response(200, JArr(l)),
      Response(200, JObj([Python |-> JInt(1200)])),
      Response(200, JObj([content |-> JStr(B64Readme)]))>>
\* fetch_repo_data when the four requests succeed and the commit list is l
Fetched(l) ==
    fetch_repo_data(UrlHelloWorld, GoodAnswers(l)[1], GoodAnswers(l)[2],
                    GoodAnswers(l)[3], GoodAnswers(l)[4])

InitHeur ==
    /\ pc = "commits"
    /\ repo_url = UrlHelloWorld
    /\ \E l \in HeurCommitLists :
          /\ repo_data = Fetched(l).value
          /\ calls = Fetched(l).calls
          /\ answers = GoodAnswers(l)
    /\ commit_analysis = Unset
    /\ groq_analysis = Unset
    /\ final_score = Unset
    /\ final_analysis = Unset
    /\ report = Unset
    /\ result = Unset
    /\ NoShell

NextHeur == AnalyzeCommitPatterns

SpecHeur == InitHeur /\ [][NextHeur]_vars

-----------------------------------------------------------------------------
\* calculate_final_score alone: the runs in which the model has reported a
\* score at most ScoreMargin outside of 0..100, or none, and the calls of the
\* method with a heuristic result that has no pattern_score.

ScoreCommitLists ==
    {<<>>, <<C(MsgPerfectGeneric)>>, <<C(MsgFix), C(MsgAdd), C(MsgAdd)>>,
     <<C(MsgFix)>>, Rep(C(MsgAdd), FewCommits)}

\* the completions of the model: an object with a score, or an empty one
ScoreTexts ==
    {<<TLBrace, MScore(n), TRBrace>> :
        n \in (-ScoreMargin * Scale)..((100 + ScoreMargin) * Scale)}
    \cup {<<TLBrace, TRBrace>>}
ScoreCompletion(x) == Completion([t |-> "text", tokens |-> x])

InitScore ==
    /\ pc = "score"
    /\ repo_url = UrlHelloWorld
    /\ \E l \in ScoreCommitLists :
          /\ repo_data = Fetched(l).value
          /\ calls = Append(Fetched(l).calls, ChatRequest(Fetched(l).value))
          /\ commit_analysis \in {analyze_commit_patterns(l).returned,
                                  EmptyDict}
          /\ \E x \in ScoreTexts :
                /\ answers = Append(GoodAnswers(l), ScoreCompletion(x))
                /\ groq_analysis = analyze_with_groq(ScoreCompletion(x))
    /\ final_score = Unset
    /\ final_analysis = Unset
    /\ report = Unset
    /\ result = Unset
    /\ NoShell

NextScore == CalculateFinalScore

SpecScore == InitScore /\ [][NextScore]_vars

-----------------------------------------------------------------------------
\* analyze_repository as one call: its possible results, the requests it
\* issues and the answers it consumes, when the remote services answer
\* a[1] .. a[4] (hosting API) and a[5] (chat completion).

analyze_repository(url, a) ==
    LET f == fetch_repo_data(url, a[1], a[2], a[3], a[4])
        h == analyze_commit_patterns(
                 Get(f.value, "commits", JArr(<<>>)).items)
        g == analyze_with_groq(a[5])
        e == InError(g)
        q == Append(f.calls, ChatRequest(f.value))
        s == calculate_final_score(g, h.returned, 0)
        out(r, c) == [result |-> r, calls |-> c, answers |-> Take(a, Len(c))]
        composite(final) ==
            JObj([repo_data |-> f.value,
                  final_analysis |-> final,
                  report |-> generate_report(f.value, final)])
    IN  IF "error" \in DOMAIN f.value.m THEN {out(Returned(f.value), f.calls)}
        ELSE IF IsRaised(h) THEN {out(h, f.calls)}
        ELSE IF IsRaised(e) THEN {out(e, q)}
        ELSE IF e.returned THEN {out(Returned(g), q)}
        ELSE IF IsRaised(s) THEN {out(s, q)}
        ELSE {out(Returned(composite(
                      calculate_final_score(g, h.returned, rounded).returned)),
                  q) :
                 rounded \in Round1(FinalScore(g, h.returned))}

-----------------------------------------------------------------------------
\* The presentation shell, src/app.py: a Streamlit script that runs from top
\* to bottom on every event of the page (a field edited, a button clicked,
\* st.rerun()), over a session state that outlives the runs. A run is one
\* step: it goes to the end of the script or to a call of st.rerun().
\*
\* What a run draws is kept as the boxes shown, in order, each with its kind,
\* its fixed text (without the pictograph) and the value formatted into it;
\* whether the Analyze button was drawn disabled; and whether the reset
\* button was drawn.

\* bool(v)
Truthy(v) ==
    IF v.t = "string" THEN v.s # <<>>
    ELSE IF v.t = "object" THEN DOMAIN v.m # {}
    ELSE IF v.t = "array" THEN v.items # <<>>
    ELSE IF v.t = "number" THEN v.n # 0
    ELSE FALSE

\* repo_url and repo_url.startswith("https://github.com/")
ValidUrl(url) ==
    LET prefix == SegHttps \o <<"/", "/">> \o SegHost \o <<"/">>
    IN  url # <<>> /\ Take(url, Len(prefix)) = prefix

\* st.error, st.success, st.info, st.exception, st.markdown
St(kind, text, arg) == [kind |-> kind, text |-> text, arg |-> arg]

\* The handler of the Analyze button: the session it leaves, what it shows
\* and whether it calls st.rerun().
AnalyzeHandlerFlagFirst(s, key, url, clicked) ==
    LET on == [s EXCEPT !.analyzing = TRUE]
    IN
    IF ~(clicked /\ ~s.analyzing)
    THEN [session |-> s, shown |-> <<>>, rerun |-> FALSE]
    ELSE IF ~Truthy(key)
    THEN [session |-> on,
          shown |-> <<St("error", "Add Groq API key to config.py", JNull)>>,
          rerun |-> FALSE]
    ELSE IF ~ValidUrl(url)
    THEN [session |-> on,
          shown |-> <<St("error", "Enter valid GitHub URL", JNull)>>,
          rerun |-> FALSE]
    ELSE [session |-> on, shown |-> <<>>, rerun |-> TRUE]
AnalyzeHandler(s, key, url, clicked) ==
    IF ~(clicked /\ ~s.analyzing)
    THEN [session |-> s, shown |-> <<>>, rerun |-> FALSE]
    ELSE IF ~Truthy(key)
    THEN [session |-> s,
          shown |-> <<St("error", "Add Groq API key to config.py", JNull)>>,
          rerun |-> FALSE]
    ELSE IF ~ValidUrl(url)
    THEN [session |-> s,
          shown |-> <<St("error", "Enter valid GitHub URL", JNull)>>,
          rerun |-> FALSE]
    ELSE [session |-> [s EXCEPT !.analyzing = TRUE],
          shown |-> <<>>,
          rerun |-> TRUE]

\* The branch of the run block taken when "error" is in the result v, a dict.
ErrorBranchStores(s, v) ==
    [session |-> [result |-> v, analyzing |-> FALSE],
     shown |-> <<St("error", "Error: ", v.m.error)>>,
     rerun |-> FALSE]
ErrorBranch(s, v) ==
    [session |-> [s EXCEPT !.analyzing = FALSE],
     shown |-> <<St("error", "Error: ", v.m.error)>>,
     rerun |-> FALSE]

\* The run block: the analysis of url with the key, when the remote services
\* answer a. Groq(api_key=None) raises when the constructor finds no key.
AnalysisRun(s, key, url, a) ==
    LET \* except Exception as e
        except(e) ==
            [session |-> [s EXCEPT !.analyzing = FALSE],
             shown |-> <<St("error", "Analysis failed: ", JStr(<<e>>)),
                         St("exception", "", JStr(<<e>>))>>,
             rerun |-> FALSE]
        success(v) ==
            [session |-> [result |-> v, analyzing |-> FALSE],
             shown |-> <<St("success", "Analysis Complete!", JNull)>>,
             rerun |-> TRUE]
        branch(r) ==
            IF IsRaised(r) THEN except(r.raised)
            ELSE IF IsRaised(InError(r.returned))
            THEN except(InError(r.returned).raised)
            ELSE IF ~InError(r.returned).returned THEN success(r.returned)
            \* result['error'] of a list or a str
            ELSE IF r.returned.t # "object" THEN except("TypeError")
            ELSE ErrorBranch(s, r.returned)
        with(b, r, c, w) ==
            [session |-> b.session, shown |-> b.shown, rerun |-> b.rerun,
             result |-> r, calls |-> c, answers |-> w]
    IN  IF key = JNull
        THEN {with(except("GroqError"), Unset, <<>>, <<>>)}
        ELSE {with(branch(o.result), o.result, o.calls, o.answers) :
                 o \in analyze_repository(url, a)}

\* The results column: the run block, or the stored result and the reset
\* button with its handler, or the invitation.
ResultsColumn(s, key, url, a, reset_clicked) ==
    LET idle(left, shown, rerun, reset) ==
            [session |-> left, shown |-> shown, rerun |-> rerun,
             reset |-> reset, result |-> Unset, calls |-> <<>>,
             answers |-> <<>>]
    IN  IF s.analyzing
        THEN {[session |-> r.session, shown |-> r.shown, rerun |-> r.rerun,
               reset |-> FALSE, result |-> r.result, calls |-> r.calls,
               answers |-> r.answers] : r \in AnalysisRun(s, key, url, a)}
        ELSE IF Truthy(s.result)
        THEN IF reset_clicked
             THEN {idle(SessionInit,
                        <<St("report", "", s.result.m.report)>>, TRUE, TRUE)}
             ELSE {idle(s, <<St("report", "", s.result.m.report)>>, FALSE,
                        TRUE)}
        ELSE {idle(s,
                   <<St("info", "Enter repository URL and click Analyze",
                        JNull)>>,
                   FALSE, FALSE)}

\* One run of the script over the session s: the session it leaves, what it
\* draws, whether it ends in st.rerun(), and the analysis it made.
Script(s, user_key, default_key, url, a, analyze_clicked, reset_clicked) ==
    LET groq_key == IF Truthy(user_key) THEN user_key ELSE default_key
        status ==
            IF Truthy(groq_key)
            THEN <<St("success", "API key loaded", JNull)>>
            ELSE <<St("error", "No API key found in config.py", JNull)>>
        h == AnalyzeHandler(s, groq_key, url, analyze_clicked)
        howto ==
            IF ~h.session.analyzing /\ ~Truthy(h.session.result)
            THEN <<St("info", "How to use", JNull)>>
            ELSE <<>>
    IN  IF h.rerun
        THEN {[session |-> h.session,
               screen |-> [shown |-> status \o h.shown,
                           disabled |-> s.analyzing,
                           reset |-> FALSE],
               rerun |-> TRUE,
               result |-> Unset, calls |-> <<>>, answers |-> <<>>]}
        ELSE {[session |-> c.session,
               screen |-> [shown |-> status \o h.shown \o howto \o c.shown,
                           disabled |-> s.analyzing,
                           reset |-> c.reset],
               rerun |-> c.rerun,
               result |-> c.result, calls |-> c.calls,
               answers |-> c.answers] :
                 c \in ResultsColumn(h.session, groq_key, url, a,
                                     reset_clicked)}

\* What the user types in the URL field, or gets from the list of examples.
AppUrls == {<<>>, UrlHelloWorld, UrlOwnerOnly, UrlShort, UrlBare}
\* What the remote services answer to an analysis.
AppAnswers ==
    {<<r1, r2, Response(200, JObj([Python |-> JInt(1200)])),
       Response(200, JObj([content |-> JStr(B64Readme)])), r5>> :
        r1 \in {Response(200, RepoMeta), Response(404, ApiMessage)},
        r2 \in {Response(200, JArr(<<C(MsgFix)>>)),
                Response(200, JArr(<<NullCommit>>))},
        r5 \in {Failure("APIConnectionError")}
               \cup {Completion([t |-> "text", tokens |-> x]) :
                        x \in {<<TLBrace, MScore(9500), TRBrace>>,
                               <<TLBrace, MScore(1000), TRBrace>>,
                               <<TLBrace, TProse, TRBrace>>,
                               <<TValue(JArr(<<>>))>>,
                               <<TValue(JStr(StrErrorText))>>}}}

\* A run of the script with the fields holding user_key and url.
Run(user_key, url, analyze_clicked, reset_clicked) ==
    /\ \E a \in AppAnswers :
          \E o \in Script(session, user_key, GROQ_API_KEY, url, a,
                          analyze_clicked, reset_clicked) :
             /\ session' = o.session
             /\ screen' = o.screen
             /\ pc' = IF o.rerun THEN "rerun" ELSE "wait"
             /\ result' = o.result
             /\ calls' = o.calls
             /\ answers' = o.answers
    /\ groq_key_input' = user_key
    /\ repo_url' = url
    /\ UNCHANGED <<GROQ_API_KEY, repo_data, commit_analysis, groq_analysis,
                   final_score, final_analysis, report>>

\* the user clicks the Analyze button, which was drawn enabled
ClickAnalyze ==
    /\ pc = "wait"
    /\ ~screen.disabled
    /\ Run(groq_key_input, repo_url, TRUE, FALSE)

\* the user clicks the reset button, which was drawn
ClickReset ==
    /\ pc = "wait"
    /\ screen.reset
    /\ Run(groq_key_input, repo_url, FALSE, TRUE)

\* the user edits the key field (to nothing or to a key) or the URL field,
\* or picks an example
EditFields ==
    /\ pc = "wait"
    /\ \E k \in {JStr(<<>>), JStr(<<"gsk_typed">>)}, u \in AppUrls :
          /\ <<k, u>> # <<groq_key_input, repo_url>>
          /\ Run(k, u, FALSE, FALSE)

\* the run that st.rerun() asked for
Rerun ==
    /\ pc = "rerun"
    /\ Run(groq_key_input, repo_url, FALSE, FALSE)

\* The page once its first run has ended: a new session, empty fields, and
\* a config.py that holds None, an empty string or a key.
InitApp ==
    /\ pc = "wait"
    /\ repo_url = <<>>
    /\ groq_key_input = JStr(<<>>)
    /\ GROQ_API_KEY \in {JNull, JStr(<<>>), JStr(<<"gsk_configured">>)}
    /\ \E a \in AppAnswers :
          \E o \in Script(SessionInit, groq_key_input, GROQ_API_KEY,
                          repo_url, a, FALSE, FALSE) :
             /\ session = o.session
             /\ screen = o.screen
             /\ result = o.result
             /\ calls = o.calls
             /\ answers = o.answers
    /\ repo_data = Unset
    /\ commit_analysis = Unset
    /\ groq_analysis = Unset
    /\ final_score = Unset
    /\ final_analysis = Unset
    /\ report = Unset

NextApp ==
    \/ ClickAnalyze
    \/ ClickReset
    \/ EditFields
    \/ Rerun

SpecApp == InitApp /\ [][NextApp]_vars

-----------------------------------------------------------------------------
\* Properties of calculate_final_score.

\* calculate_final_score has returned
Scored == pc \in {"report", "done"} /\ final_analysis # Unset

\* base - penalty of the call, in hundredths: the model's authenticity_score
\* or 50, less the heuristic pattern_score or 0
RawDifference ==
    (IF "authenticity_score" \in DOMAIN groq_analysis.m
     THEN groq_analysis.m.authenticity_score.n ELSE 50 * Scale)
    - (IF "pattern_score" \in DOMAIN commit_analysis.m
       THEN commit_analysis.m.pattern_score.n ELSE 0)

\* RawDifference clamped to 0..100
ClampedDifference ==
    IF RawDifference < 0 THEN 0
    ELSE IF RawDifference > 100 * Scale THEN 100 * Scale
    ELSE RawDifference

ReturnedScore == final_analysis.m.authenticity_score.n

\* C1, as stated: the returned authenticity_score equals (base - penalty)
\* clamped to 0..100.
C1_ScoreIsClampedDifference ==
    Scored => ReturnedScore = ClampedDifference

\* C1, amended: the returned authenticity_score is (base - penalty) clamped
\* to 0..100 and then rounded to one decimal place: it is a whole number of
\* tenths within 0.05 of the clamped difference, it equals the clamped
\* difference whenever that has at most one decimal digit, and it is never
\* below 0 nor above 100.
C1_ScoreIsRoundedClampedDifference ==
    Scored =>
        /\ ReturnedScore >= 0
        /\ ReturnedScore <= 100 * Scale
        /\ ReturnedScore % (Scale \div 10) = 0
        /\ 2 * (ReturnedScore - ClampedDifference) <= Scale \div 10
        /\ 2 * (ClampedDifference - ReturnedScore) <= Scale \div 10
        /\ ClampedDifference % (Scale \div 10) = 0
               => ReturnedScore = ClampedDifference

\* base 10 and penalty 45 have given the score 0
C1_Witness ==
    /\ Scored
    /\ "authenticity_score" \in DOMAIN groq_analysis.m
    /\ groq_analysis.m.authenticity_score.n = 10 * Scale
    /\ "pattern_score" \in DOMAIN commit_analysis.m
    /\ commit_analysis.m.pattern_score.n = 45 * Scale
    /\ ReturnedScore = 0

\* The triple calculate_final_score returned.
ReturnedBand ==
    <<final_analysis.m.category.s[1], final_analysis.m.color.s[1],
      final_analysis.m.risk_level.s[1]>>

-----------------------------------------------------------------------------
\* Properties of fetch_repo_data, in the runs of the whole pipeline.

\* fetch_repo_data has returned
FetchDone == pc # "fetch"

IsErrorCondition(v) == v.t = "object" /\ "error" \in DOMAIN v.m

\* the primary request got no usable answer: no response, an error status,
\* or a body that does not decode
PrimaryFailed ==
    /\ Len(answers) >= 1
    /\ \/ IsFailure(answers[1])
       \/ answers[1].status >= 400
       \/ answers[1].body = Undecodable

\* the primary request was answered with the metadata of the repository
PrimarySucceeded ==
    /\ Len(answers) >= 1
    /\ ~IsFailure(answers[1])
    /\ answers[1].status < 400
    /\ answers[1].body.t = "object"

\* a secondary answer that is a failure: no response, a non-success status,
\* or a body that does not decode
SecondaryFailed(a) ==
    IsFailure(a) \/ a.status >= 400 \/ a.body = Undecodable

\* a secondary answer that is a success of the expected shape
SecondaryGood(i, a) ==
    /\ ~SecondaryFailed(a)
    /\ i = 2 => a.body.t = "array"
    /\ i = 3 => a.body.t = "object"
    /\ i = 4 => /\ a.body.t = "object"
                /\ "content" \in DOMAIN a.body.m
                /\ a.body.m.content.t = "string"
                /\ B64Valid(a.body.m.content.s)

\* C3: once the primary request has succeeded, a failure of a secondary
\* request (a non-success status, a timeout, an undecodable body) degrades
\* only that field to its empty default; the fetch still returns a record and
\* never an error condition.
C3_SecondaryFailuresDegrade ==
    (/\ FetchDone
     /\ PrimarySucceeded
     /\ \A i \in 2..Len(answers) : i <= 4 =>
            SecondaryFailed(answers[i]) \/ SecondaryGood(i, answers[i])
     /\ \E i \in 2..Len(answers) : i <= 4 /\ SecondaryFailed(answers[i]))
    =>
        /\ ~IsErrorCondition(repo_data)
        /\ Len(answers) >= 4
        /\ SecondaryFailed(answers[2])
               => repo_data.m.commits = JArr(<<>>)
        /\ SecondaryFailed(answers[3])
               => repo_data.m.languages = EmptyDict
        /\ SecondaryFailed(answers[4])
               => repo_data.m.readme = JStr(<<>>)

\* The pieces of a URL that follow the scheme and the host, trailing
\* separators trimmed.
PathSegments(url) ==
    LET p == Split(RStrip(url))
        path == IF /\ Len(p) >= 3
                   /\ p[1] = SegHttps /\ p[2] = <<>> /\ p[3] = SegHost
                THEN SubSeq(p, 4, Len(p))
                ELSE p
    IN  SelectSeq(path, LAMBDA x : Len(x) > 0)

\* C7: an input with fewer than two path segments (a bare string, a host
\* with one segment) gets the 'Invalid GitHub URL' error, and
\* https://github.com/<owner>/<repo> gives exactly that owner and that repo.
C7_InvalidUrlBelowTwoSegments ==
    FetchDone =>
        /\ Len(PathSegments(repo_url)) < 2
               => repo_data = ErrorDict(MsgInvalidUrl)
        /\ repo_url = UrlHelloWorld
               => /\ Len(calls) >= 1
                  /\ calls[1].owner = SegOctocat
                  /\ calls[1].repo = SegHelloWorld

\* C8: a failed primary request decides the error that is returned: 404 gives
\* 'Repository not found', 403 the rate-limit error, any other failure a
\* generic error that carries the underlying error text; no secondary request
\* is issued and analyze_repository returns that error.
C8_PrimaryFailureDecidesError ==
    (FetchDone /\ PrimaryFailed) =>
        /\ Len(calls) = 1
        /\ calls[1].path = "repo"
        /\ repo_data.t = "object"
        /\ DOMAIN repo_data.m = {"error"}
        /\ pc = "done"
        /\ result = Returned(repo_data)
        /\ LET a == answers[1]
               text == repo_data.m.error.s
           IN  IF IsFailure(a)
               THEN text = <<"Failed to fetch repo: ", a.failure>>
               ELSE IF a.status = 404 THEN text = <<"Repository not found">>
               ELSE IF a.status = 403
               THEN text = <<"Rate limit exceeded. Wait 1 hour.">>
               ELSE IF a.status >= 400
               THEN text = <<"GitHub API error: ", "HTTPError">>
               ELSE text = <<"Failed to fetch repo: ", "JSONDecodeError">>

\* the primary request was answered 403 and the rate-limit error came back
C8_Witness ==
    /\ pc = "done"
    /\ Len(answers) = 1
    /\ ~IsFailure(answers[1])
    /\ answers[1].status = 403
    /\ result = Returned(ErrorDict(MsgRateLimit))

-----------------------------------------------------------------------------
\* Properties of analyze_with_groq and analyze_repository.

\* {"error": message} and nothing else
IsErrorShaped(v) ==
    /\ v.t = "object"
    /\ DOMAIN v.m = {"error"}
    /\ v.m.error.t = "string"

\* {"repo_data": ..., "final_analysis": ..., "report": ...}
IsComposite(v) ==
    /\ v.t = "object"
    /\ DOMAIN v.m = {"repo_data", "final_analysis", "report"}

\* C4: whatever the URL, the answers of the hosting API and the text of the
\* model, analyze_repository returns an error-shaped result or the composite
\* result; no exception leaves it.
C4_AlwaysReturnsResult ==
    pc = "done" =>
        /\ ~IsRaised(result)
        /\ IsErrorShaped(result.returned) \/ IsComposite(result.returned)

FetchYieldedError == repo_data # Unset /\ IsErrorCondition(repo_data)
ModelYieldedError == groq_analysis # Unset /\ IsErrorCondition(groq_analysis)

\* C5: a run returns an error condition exactly when the fetch stage or the
\* model stage yielded one, and then no later stage has run; every other run
\* reaches score fusion and report rendering and returns the composite of
\* repo_data, final_analysis and report.
C5_ErrorOrCompleteResult ==
    pc = "done" =>
        /\ (~IsRaised(result) /\ IsErrorCondition(result.returned))
               <=> (FetchYieldedError \/ ModelYieldedError)
        /\ FetchYieldedError
               => /\ result = Returned(repo_data)
                  /\ commit_analysis = Unset
                  /\ groq_analysis = Unset
        /\ ModelYieldedError => result = Returned(groq_analysis)
        /\ (FetchYieldedError \/ ModelYieldedError)
               => final_analysis = Unset /\ report = Unset
        /\ ~(FetchYieldedError \/ ModelYieldedError)
               => /\ final_analysis # Unset
                  /\ report # Unset
                  /\ result = Returned(JObj([repo_data |-> repo_data,
                                             final_analysis |-> final_analysis,
                                             report |-> report]))

\* analyze_with_groq has returned
GroqDone == groq_analysis # Unset
\* what the chat completion answered
ChatAnswer == answers[Len(answers)]
IsText(o) == ~IsFailure(o) /\ o.content.t = "text"

\* C6: with the fences stripped, a text that parses gives the parsed value;
\* otherwise the first brace-delimited span is parsed; when both attempts
\* fail the result is 'Could not parse response'; 'analysis failed' is the
\* result of a chat-completion call that failed or gave no text only.
C6_UnparsableGivesCouldNotParse ==
    GroqDone =>
        /\ IsText(ChatAnswer) =>
               LET text == StripFences(ChatAnswer.content.tokens)
                   span == SearchBraces(text)
               IN  IF ~IsRaised(JsonLoads(text))
                   THEN groq_analysis = JsonLoads(text).returned
                   ELSE IF span # <<>> /\ ~IsRaised(JsonLoads(span))
                   THEN groq_analysis = JsonLoads(span).returned
                   ELSE groq_analysis = ErrorDict(<<"Could not parse response">>)
        /\ (/\ IsErrorShaped(groq_analysis)
            /\ groq_analysis.m.error.s[1] = "Groq analysis failed: ")
               => ~IsText(ChatAnswer)

-----------------------------------------------------------------------------
\* Properties of analyze_commit_patterns.

\* analyze_commit_patterns has returned
HeurDone == commit_analysis # Unset

Commits == repo_data.m.commits.items
Flags == commit_analysis.m.red_flags.items
Penalty == commit_analysis.m.pattern_score.n
HasFlag(text) == \E i \in 1..Len(Flags) : Flags[i] = JStr(<<text>>)

CheckFlags ==
    {"Most commits have perfect grammar (AI-generated?)",
     "Very few commits (< 5)",
     "Over 60% generic commit messages"}

\* C9: an empty commit list gives exactly the flag 'No commit data
\* available', the penalty 20 and total_commits 0; a non-empty one gives at
\* most one flag per check and the penalty 15 times the number of flags, one
\* of 0, 15, 30, 45; a list of 1 to 4 commits carries 'Very few commits' and
\* a penalty of at least 15.
C9_PenaltyCountsFlags ==
    HeurDone =>
        IF Len(Commits) = 0
        THEN /\ Flags = <<JStr(<<"No commit data available">>)>>
             /\ Penalty = 20 * Scale
             /\ commit_analysis.m.total_commits.n = 0
        ELSE /\ \A i \in 1..Len(Flags) :
                    /\ Flags[i].t = "string"
                    /\ Flags[i].s[1] \in CheckFlags
                    /\ \A j \in 1..Len(Flags) : Flags[i] = Flags[j] => i = j
             /\ Penalty = 15 * Scale * Len(Flags)
             /\ Penalty \in {0, 15 * Scale, 30 * Scale, 45 * Scale}
             /\ commit_analysis.m.total_commits.n = Len(Commits) * Scale
             /\ Len(Commits) <= 4
                    => /\ HasFlag("Very few commits (< 5)")
                       /\ Penalty >= 15 * Scale

\* four commits with varied messages carry the one flag 'Very few commits'
C9_Witness ==
    /\ HeurDone
    /\ Len(Commits) = 4
    /\ Flags = <<JStr(<<"Very few commits (< 5)">>)>>
    /\ Penalty = 15 * Scale

\* The messages of the commit kinds that Python finds to contain a generic
\* word, and those it finds longer than 50 characters, starting with an
\* uppercase letter and containing a period.
GenericTexts == {MsgFix, MsgPrefix, MsgPerfectGeneric}
PerfectTexts == {MsgPerfect, MsgPerfectGeneric}
CountIn(texts) ==
    Cardinality({i \in 1..Len(Commits) : CommitMessage(Commits[i]).s \in texts})

\* C10: of n > 0 messages of which g contain a generic word, the generic flag
\* is emitted iff 10 * g > 6 * n; the uniform-grammar flag is emitted iff the
\* messages that are long, capitalised and contain a period are more than
\* 0.8 of them.
C10_FlagsIffFractionExceeded ==
    (HeurDone /\ Len(Commits) > 0) =>
        /\ HasFlag("Over 60% generic commit messages")
               <=> 10 * CountIn(GenericTexts) > 6 * Len(Commits)
        /\ HasFlag("Most commits have perfect grammar (AI-generated?)")
               <=> 10 * CountIn(PerfectTexts) > 8 * Len(Commits)

\* 7 generic messages of 10 have triggered the generic flag
C10_Witness ==
    /\ HeurDone
    /\ Len(Commits) = 10
    /\ CountIn(GenericTexts) = 7
    /\ HasFlag("Over 60% generic commit messages")

-----------------------------------------------------------------------------
\* Properties of the shell.

\* the latest run of the script has drawn a box with this text
Shows(text) == \E i \in 1..Len(screen.shown) : screen.shown[i].text = text

\* the key the script uses: the typed one, or else the configured one
GroqKeyInUse ==
    IF Truthy(groq_key_input) THEN groq_key_input ELSE GROQ_API_KEY

\* C11: a run that ends with an input validation failure has issued no
\* request: when the shell has reported that no key is typed or configured,
\* or that the URL field holds no GitHub URL, and when analyze_repository has
\* returned 'Invalid GitHub URL', neither the hosting API nor the model
\* provider has been called by that run.
C11_ValidationFailureBeforeAnyCall ==
    /\ Shows("Add Groq API key to config.py") => calls = <<>>
    /\ Shows("Enter valid GitHub URL") => calls = <<>>
    /\ result = Returned(ErrorDict(MsgInvalidUrl)) => calls = <<>>

\* the Analyze button was clicked with no key typed and none configured, on
\* the URL of a repository: the failure is shown, nothing was requested and
\* no analysis is under way
C11_Witness ==
    /\ Shows("Add Groq API key to config.py")
    /\ ~Truthy(GroqKeyInUse)
    /\ repo_url = UrlHelloWorld
    /\ calls = <<>>
    /\ ~session.analyzing
    /\ pc = "wait"

\* analyze_repository has returned the composite result r
Succeeded(r) == "returned" \in DOMAIN r /\ IsComposite(r.returned)

\* C12: after any sequence of clicks and runs of the script, the run that
\* makes an analysis attempt (it starts with analyzing set) ends with
\* analyzing reset, whatever analyze_repository returned or raised, so the
\* flag is never set when the script waits for the user and the next drawing
\* of the Analyze button is enabled; the stored result is always None or a
\* composite result; and an attempt that did not yield a composite result
\* leaves the stored result as it was.
C12_AttemptsEndAndStoredResultIsGood ==
    /\ [](/\ pc = "wait" => ~session.analyzing
          /\ session.result = JNull \/ IsComposite(session.result))
    /\ [][session.analyzing =>
              /\ ~session'.analyzing
              /\ ~Succeeded(result') => session'.result = session.result]_vars

\* an attempt made while a composite result was stored has ended with an
\* error-shaped result: the error is shown, the flag is reset, the stored
\* result is still there
C12_Witness ==
    /\ pc = "wait"
    /\ Shows("Error: ")
    /\ "returned" \in DOMAIN result
    /\ IsErrorShaped(result.returned)
    /\ ~session.analyzing
    /\ IsComposite(session.result)

====
